---- MODULE Spec2Model ----
(***************************************************************************)
(* Model of the ZTE router API client (custom_components/zte_router/api.py) *)
(* class ZTERouterAPI: the session token, the request-id counter, the       *)
(* pooled HTTP transport, and the operations async_login, async_update,     *)
(* _call_api, _call_api_batch and close.                                    *)
(*                                                                          *)
(* Python / JSON values are records [kind, text, members]: `text` is the    *)
(* JSON text of a scalar, `members` the set of [key, kind, text] entries of *)
(* an object.  Python's None is JSON null.                                  *)
(***************************************************************************)
EXTENDS Integers, Sequences, FiniteSets, TLC

VARIABLES password, session_id, _session, _request_id, pc, last, issued, expired,
          tasks

vars == <<password, session_id, _session, _request_id, pc, last, issued, expired,
          tasks>>

(***************************************************************************)
(* Bounds of the model.                                                     *)
(***************************************************************************)
\* operations are started only while the request counter is at most this
MaxRequestId == 8
\* longest response array the device returns to async_update's batch
MaxRespLen == 6
\* longest response array the device returns to a directly called batch
MaxBatchLen == 3
\* largest number of call descriptors of a directly called batch
MaxCalls == 2

(***************************************************************************)
(* Values.                                                                  *)
(***************************************************************************)
JStr(s) == [kind |-> "string", text |-> s, members |-> {}]
JNum(t) == [kind |-> "number", text |-> t, members |-> {}]
JBool(t) == [kind |-> "bool", text |-> t, members |-> {}]
JNull == [kind |-> "null", text |-> "null", members |-> {}]
Member(k, v) == [key |-> k, kind |-> v.kind, text |-> v.text]
JObj(m) == [kind |-> "object", text |-> "", members |-> m]

None == JNull
EmptyDict == JObj({})

UNAUTHENTICATED_SESSION == JStr("00000000000000000000000000000000")

\* bool(v) of Python
Truthy(v) ==
    CASE v.kind = "string" -> v.text # ""
      [] v.kind = "number" -> v.text \notin {"0", "0.0"}
      [] v.kind = "bool" -> v.text = "true"
      [] v.kind = "null" -> FALSE
      [] v.kind = "object" -> v.members # {}

\* a == b of Python for the scalars the client compares: numbers and bools
\* compare by numeric value (False == 0, True == 1, 0.0 == 0), strings by text
NumericValue(v) ==
    CASE v.kind = "bool" -> (IF v.text = "true" THEN "1" ELSE "0")
      [] v.kind = "number" -> (IF v.text = "0.0" THEN "0" ELSE v.text)
      [] OTHER -> "nan"

PyEq(a, b) ==
    IF a.kind \in {"number", "bool"} /\ b.kind \in {"number", "bool"}
    THEN NumericValue(a) = NumericValue(b)
    ELSE a = b

\* k in d, for a dict d
HasKey(d, k) == \E m \in d.members : m.key = k

\* d.get(k, default), for a dict d
DictGet(d, k, default) ==
    IF HasKey(d, k)
    THEN LET m == CHOOSE x \in d.members : x.key = k
         IN  [kind |-> m.kind, text |-> m.text, members |-> {}]
    ELSE default

(***************************************************************************)
(* What the device sends back to one POST.                                  *)
(*   status "transport_error": session.post raises (connect, timeout)       *)
(*   status "http_error":      raise_for_status raises (non-2xx)            *)
(*   status "ok":              the body parses; isList tells whether it is  *)
(*                             a JSON array, items are its elements         *)
(* An item records whether it is an object, its "error" member (an object   *)
(* with a code, or any other value) and its "result" member (a list of      *)
(* elements, or any other value).                                           *)
(***************************************************************************)
NoError == [isObj |-> FALSE, code |-> None]
NoResult == [isList |-> FALSE, elems |-> <<>>]

ErrorObj(code) == [isObj |-> TRUE, code |-> code]
ResultList(elems) == [isList |-> TRUE, elems |-> elems]

NonObjectItem ==
    [isObj |-> FALSE, hasError |-> FALSE, error |-> NoError,
     hasResult |-> FALSE, result |-> NoResult]
ErrorItem(err) ==
    [isObj |-> TRUE, hasError |-> TRUE, error |-> err,
     hasResult |-> FALSE, result |-> NoResult]
ResultItem(res) ==
    [isObj |-> TRUE, hasError |-> FALSE, error |-> NoError,
     hasResult |-> TRUE, result |-> res]
ErrorAndResultItem(err, res) ==
    [isObj |-> TRUE, hasError |-> TRUE, error |-> err,
     hasResult |-> TRUE, result |-> res]

Ok(payload) == ResultItem(ResultList(<<JNum("0"), payload>>))

TransportError == [status |-> "transport_error", isList |-> FALSE, items |-> <<>>]
HttpError == [status |-> "http_error", isList |-> FALSE, items |-> <<>>]
NotAList == [status |-> "ok", isList |-> FALSE, items |-> <<>>]
Body(items) == [status |-> "ok", isList |-> TRUE, items |-> items]
\* placeholder for a POST the operation never made
NoReply == [status |-> "unused", isList |-> FALSE, items |-> <<>>]

(***************************************************************************)
(* The client.  c is the object's state:                                    *)
(*   [password, session_id, session, request_id]                            *)
(* session is the transport self._session: "None", "open" or "closed".      *)
(***************************************************************************)
Client(pw, sid, sess, rid) ==
    [password |-> pw, session_id |-> sid, session |-> sess, request_id |-> rid]

\* __init__
NewClient(pw) == Client(pw, UNAUTHENTICATED_SESSION, "None", 1)

\* only a missing transport is created, a closed one is kept
GetSessionKeepsClosed(session) == IF session = "None" THEN "open" ELSE session

\* _get_session: a missing or closed transport is created anew
GetSession(session) ==
    IF session = "None" \/ session = "closed" THEN "open" ELSE session

\* close: only an open transport is closed
CloseSession(session) ==
    IF session # "None" /\ session # "closed" THEN "closed" ELSE session

\* the counter left as it was
RequestIdNotIncremented(id) == id

\* self._request_id += 1
NextRequestId(id) == id + 1

\* _create_rpc_request: the envelope and the counter after it
CreateRpcRequest(c, namespace, method, params) ==
    [request |->
        [jsonrpc |-> "2.0",
         id |-> c.request_id,
         method |-> "call",
         params |-> [session_id |-> c.session_id, namespace |-> namespace,
                     method |-> method,
                     params |-> IF params = None THEN EmptyDict ELSE params]],
     request_id |-> NextRequestId(c.request_id)]

\* result = item.get("result", []); result[1] when it is a list longer than 1
ExtractResult(item) ==
    LET result == IF item.hasResult THEN item.result ELSE ResultList(<<>>)
    IN  IF result.isList /\ Len(result.elems) > 1 THEN result.elems[2] ELSE None

\* the value _call_api returns for a reply: every exception is turned into
\* None (data[0].get on a non-object item raises and is caught as well)
CallApiValue(reply) ==
    IF reply.status # "ok" THEN None
    ELSE IF ~reply.isList THEN None
    ELSE IF Len(reply.items) > 0
         THEN IF ~reply.items[1].isObj THEN None
              ELSE ExtractResult(reply.items[1])
         ELSE None

CallApiSent(c, rq, reply) ==
    [client |-> [c EXCEPT !.session = GetSession(c.session),
                          !.request_id = rq.request_id],
     value |-> CallApiValue(reply),
     post |-> <<rq.request>>]

\* _call_api: one envelope, one POST
CallApi(c, namespace, method, params, reply) ==
    CallApiSent(c, CreateRpcRequest(c, namespace, method, params), reply)

ACCESS_DENIED == JNum("-32002")

\* error_code == -32002
IsAccessDenied(code) == PyEq(code, ACCESS_DENIED)

\* the loop over the response items: results are appended per item; an
\* "error" member that is no object makes .get raise (raised = TRUE)
RECURSIVE BatchLoop(_, _, _, _)
BatchLoop(data, idx, results, access_denied_count) ==
    IF idx > Len(data)
    THEN [raised |-> FALSE, results |-> results,
          access_denied_count |-> access_denied_count]
    ELSE LET item == data[idx]
         IN  IF ~item.isObj
             THEN BatchLoop(data, idx + 1, Append(results, None), access_denied_count)
             ELSE IF item.hasError
             THEN IF ~item.error.isObj
                  THEN [raised |-> TRUE, results |-> results,
                        access_denied_count |-> access_denied_count]
                  ELSE BatchLoop(data, idx + 1, Append(results, None),
                                 IF IsAccessDenied(item.error.code)
                                 THEN access_denied_count + 1
                                 ELSE access_denied_count)
             ELSE BatchLoop(data, idx + 1, Append(results, ExtractResult(item)),
                            access_denied_count)

\* the reset applied whatever the token is
SessionExpiredAnyToken(access_denied_count, sid) == access_denied_count >= 2

\* the threshold at one, and at three, access-denied items
SessionExpiredAtOne(access_denied_count, sid) ==
    access_denied_count >= 1 /\ sid # UNAUTHENTICATED_SESSION

SessionExpiredAtThree(access_denied_count, sid) ==
    access_denied_count >= 3 /\ sid # UNAUTHENTICATED_SESSION

\* access_denied_count >= 2 and self.session_id != UNAUTHENTICATED_SESSION
SessionExpired(access_denied_count, sid) ==
    access_denied_count >= 2 /\ sid # UNAUTHENTICATED_SESSION

\* one id for all the envelopes of a batch, the counter advanced once
BuildRequestsSharedId(c, calls, i, requests) ==
    [client |-> [c EXCEPT !.request_id = NextRequestId(c.request_id)],
     requests |-> [k \in 1..Len(calls) |->
                      CreateRpcRequest(c, calls[k].namespace, calls[k].method,
                                       calls[k].params).request]]

\* the list comprehension building one envelope per call, in order
RECURSIVE BuildRequests(_, _, _, _)
BuildRequests(c, calls, i, requests) ==
    IF i > Len(calls) THEN [client |-> c, requests |-> requests]
    ELSE LET rq == CreateRpcRequest(c, calls[i].namespace, calls[i].method,
                                    calls[i].params)
         IN  BuildRequests([c EXCEPT !.request_id = rq.request_id], calls, i + 1,
                           Append(requests, rq.request))

\* an empty list in place of one None per call
AllNoneEmpty(calls) == <<>>

\* [None] * len(calls)
AllNone(calls) == [i \in 1..Len(calls) |-> None]

\* the token reset to the empty string instead of the sentinel
AfterBatchEmptyToken(c, reset) ==
    IF reset THEN [c EXCEPT !.session_id = JStr("")] ELSE c

\* the token after the batch: reset when the session expired
AfterBatch(c, reset) ==
    IF reset THEN [c EXCEPT !.session_id = UNAUTHENTICATED_SESSION] ELSE c

BatchOutcome(c, calls, requests, failed, loop) ==
    [client |->
        AfterBatch(c, ~failed /\ SessionExpired(loop.access_denied_count, c.session_id)),
     results |-> IF failed THEN AllNone(calls) ELSE loop.results,
     reset |-> ~failed /\ SessionExpired(loop.access_denied_count, c.session_id),
     post |-> requests]

\* the body is iterated without the check that it is a list
BatchReceivedNoListCheck(built, calls, reply, loop) ==
    BatchOutcome(built.client, calls, built.requests,
                 reply.status # "ok" \/ loop.raised, loop)

BatchReceived(built, calls, reply, loop) ==
    BatchOutcome(built.client, calls, built.requests,
                 reply.status # "ok" \/ ~reply.isList \/ loop.raised, loop)

\* _call_api_batch
CallApiBatch(c, calls, reply) ==
    BatchReceived(BuildRequests([c EXCEPT !.session = GetSession(c.session)],
                                calls, 1, <<>>),
                  calls, reply, BatchLoop(reply.items, 1, <<>>, 0))

\* hashlib.sha256(s.encode()).hexdigest().upper(), as an uninterpreted
\* injective function of its input
Sha256HexUpper(s) == "SHA256(" \o s \o ")"

SALT_KEY == "zte_web_sault"

\* "zte_web_sault" in login_info: key lookup on a dict, substring test on a
\* string (on the strings of this model: equality)
Contains(v, k) ==
    CASE v.kind = "object" -> HasKey(v, k)
      [] v.kind = "string" -> v.text = k
      [] OTHER -> FALSE

\* the string form alone
IsLoginSuccessStringOnly(result_code) == PyEq(result_code, JStr("0"))

\* result_code in ("0", 0)
IsLoginSuccess(result_code) ==
    PyEq(result_code, JStr("0")) \/ PyEq(result_code, JNum("0"))

\* the salt of a web_login_info payload, None when async_login gives up:
\* an empty salt in place of a missing one
SaltOfDefault(login_info) ==
    IF login_info.kind = "object" /\ HasKey(login_info, SALT_KEY)
    THEN IF DictGet(login_info, SALT_KEY, None).kind # "string" THEN None
         ELSE DictGet(login_info, SALT_KEY, None)
    ELSE JStr("")

\* the payload is falsy, has no salt, or an exception is raised and caught
\* ("in" on a number or bool, indexing a string by a key, concatenating a
\* salt that is no string)
SaltOf(login_info) ==
    IF \/ ~Truthy(login_info)
       \/ login_info.kind \in {"number", "bool"}
       \/ ~Contains(login_info, SALT_KEY)
       \/ login_info.kind # "object"
    THEN None
    ELSE IF DictGet(login_info, SALT_KEY, None).kind # "string" THEN None
    ELSE DictGet(login_info, SALT_KEY, None)

\* the salt put before the first digest
LoginDigestSaltFirst(pw, salt) == Sha256HexUpper(salt \o Sha256HexUpper(pw))

\* hashed_with_salt
LoginDigest(pw, salt) == Sha256HexUpper(Sha256HexUpper(pw) \o salt)

\* the token after a successful login
AdoptSession(login_result, sid) ==
    DictGet(login_result, "ubus_rpc_session", sid)

\* the token async_login leaves for a web_login payload
AdoptIfSuccess(login_result, sid) ==
    IF Truthy(login_result) /\ login_result.kind = "object"
       /\ IsLoginSuccess(DictGet(login_result, "result", None))
    THEN AdoptSession(login_result, sid) ELSE sid

\* the end of async_login, from the web_login payload (.get on a payload
\* that is no dict raises and returns False)
LoginResult(info, login) ==
    IF Truthy(login.value) /\ login.value.kind = "object"
       /\ IsLoginSuccess(DictGet(login.value, "result", None))
    THEN [client |-> [login.client EXCEPT !.session_id =
                         AdoptIfSuccess(login.value, login.client.session_id)],
          ret |-> TRUE, posts |-> <<info.post, login.post>>]
    ELSE [client |-> login.client, ret |-> FALSE,
          posts |-> <<info.post, login.post>>]

LoginWithInfo(c, info, salt, loginReply) ==
    IF salt = None
    THEN [client |-> info.client, ret |-> FALSE, posts |-> <<info.post>>]
    ELSE LoginResult(info,
            CallApi(info.client, "zwrt_web", "web_login",
                    JObj({Member("password",
                                 JStr(LoginDigest(c.password.text, salt.text)))}),
                    loginReply))

\* the handshake without the check of the password
AsyncLoginWithoutCheck(c, infoReply, loginReply) ==
    LoginWithInfo(c, CallApi(c, "zwrt_web", "web_login_info", None, infoReply),
                  SaltOf(CallApiValue(infoReply)), loginReply)

\* the password compared with None alone, so that "" is taken for a credential
AsyncLoginNoneOnly(c, infoReply, loginReply) ==
    IF c.password = None
    THEN [client |-> c, ret |-> FALSE, posts |-> <<>>]
    ELSE LoginWithInfo(c, CallApi(c, "zwrt_web", "web_login_info", None, infoReply),
                       SaltOf(CallApiValue(infoReply)), loginReply)

\* async_login
AsyncLogin(c, infoReply, loginReply) ==
    IF ~Truthy(c.password)
    THEN [client |-> c, ret |-> FALSE, posts |-> <<>>]
    ELSE LoginWithInfo(c, CallApi(c, "zwrt_web", "web_login_info", None, infoReply),
                       SaltOf(CallApiValue(infoReply)), loginReply)

\* True when async_login sends web_login after this web_login_info reply
LoginIsSent(c, infoReply) ==
    Truthy(c.password) /\ SaltOf(CallApiValue(infoReply)) # None

\* the authenticated method whatever the token
RouterMethodAlwaysAuth(sid) == "router_get_status"

\* "router_get_status" if authenticated else "router_get_status_no_auth"
RouterMethod(sid) ==
    IF sid # UNAUTHENTICATED_SESSION THEN "router_get_status"
    ELSE "router_get_status_no_auth"

Call(namespace, method, params) ==
    [namespace |-> namespace, method |-> method, params |-> params]

DataUsageParams ==
    JObj({Member("source_module", JStr("web")), Member("cid", JNum("1")),
          Member("type", JNum("4"))})

\* the five calls of async_update, in batch order
UpdateCalls(router_method) ==
    << Call("zwrt_router.api", router_method, None),
       Call("zte_nwinfo_api", "nwinfo_get_netinfo", None),
       Call("zwrt_data", "get_wwandst", DataUsageParams),
       Call("zwrt_router.api", "router_get_user_list_num", None),
       Call("zwrt_wlan", "report", None) >>

\* results[i] or {}
OrEmpty(v) == IF Truthy(v) THEN v ELSE EmptyDict

\* the returned dict, from the five positional results
Snapshot(results) ==
    [router_status |-> OrEmpty(results[1]),
     network_info |-> OrEmpty(results[2]),
     data_usage |-> OrEmpty(results[3]),
     device_info |-> OrEmpty(results[4]),
     wlan_info |-> OrEmpty(results[5])]

NoSnapshot ==
    [router_status |-> None, network_info |-> None, data_usage |-> None,
     device_info |-> None, wlan_info |-> None]

\* self.session_id[:8] + "..." raises unless the token is a string
CanSlice(sid) == sid.kind = "string"

\* True when async_update calls async_login
NeedsLogin(c) == Truthy(c.password) /\ c.session_id = UNAUTHENTICATED_SESSION

\* the statements of async_update after the batch; they raise when the batch
\* returned fewer than five results (results[i]) or when results[2] is
\* truthy and no dict (results[2].get in the log call)
UpdateWithResults(lg, login, bt) ==
    [client |-> bt.client,
     outcome |-> IF Len(bt.results) < 5
                    \/ (Truthy(bt.results[3]) /\ bt.results[3].kind # "object")
                 THEN "raised" ELSE "returned",
     snapshot |-> IF Len(bt.results) < 5
                     \/ (Truthy(bt.results[3]) /\ bt.results[3].kind # "object")
                  THEN NoSnapshot ELSE Snapshot(bt.results),
     results |-> bt.results, reset |-> bt.reset, login |-> login,
     login_success |-> lg.ret, posts |-> Append(lg.posts, bt.post)]

\* the statements of async_update after the login; the two log lines that
\* slice the token raise when it is no string
UpdateAfterLogin(lg, login, batchReply) ==
    IF ~CanSlice(lg.client.session_id)
    THEN [client |-> lg.client, outcome |-> "raised", snapshot |-> NoSnapshot,
          results |-> <<>>, reset |-> FALSE, login |-> login,
          login_success |-> lg.ret, posts |-> lg.posts]
    ELSE UpdateWithResults(lg, login,
            CallApiBatch(lg.client, UpdateCalls(RouterMethod(lg.client.session_id)),
                         batchReply))

\* async_update; it has no try block of its own
AsyncUpdate(c, infoReply, loginReply, batchReply) ==
    UpdateAfterLogin(IF NeedsLogin(c) THEN AsyncLogin(c, infoReply, loginReply)
                     ELSE [client |-> c, ret |-> FALSE, posts |-> <<>>],
                     NeedsLogin(c), batchReply)

(***************************************************************************)
(* The device's replies the model draws from.                               *)
(***************************************************************************)
SeqsUpTo(S, n) == UNION {[1..k -> S] : k \in 0..n}

\* a payload that is a non-empty mapping, and one that is no mapping
MapPayload == JObj({Member("wan_status", JStr("up"))})
TextPayload == JStr("x")

AccessDeniedItem == ErrorItem(ErrorObj(ACCESS_DENIED))
OtherErrorItem == ErrorItem(ErrorObj(JNum("-32000")))
\* "error": "boom" (no object)
BadErrorItem == ErrorItem([isObj |-> FALSE, code |-> None])
DeniedWithResultItem ==
    ErrorAndResultItem(ErrorObj(ACCESS_DENIED), ResultList(<<JNum("0"), MapPayload>>))
ShortResultItem == ResultItem(ResultList(<<JNum("0")>>))

\* items of the response to async_update's batch
UpdateItems == {Ok(MapPayload), Ok(TextPayload), AccessDeniedItem}

UpdateBatchReplies ==
    {TransportError, HttpError, NotAList}
        \cup {Body(s) : s \in SeqsUpTo(UpdateItems, MaxRespLen)}

\* items of the response to a directly called batch
BatchItems ==
    {NonObjectItem, AccessDeniedItem, OtherErrorItem, BadErrorItem,
     DeniedWithResultItem, Ok(MapPayload), ShortResultItem}

BatchReplies ==
    {TransportError, HttpError, NotAList}
        \cup {Body(s) : s \in SeqsUpTo(BatchItems, MaxBatchLen)}

SaltPayload == JObj({Member(SALT_KEY, JStr("ab12"))})

\* replies to web_login_info
InfoReplies ==
    {TransportError, HttpError, NotAList, Body(<<>>), Body(<<NonObjectItem>>),
     Body(<<ShortResultItem>>),
     Body(<<Ok(SaltPayload)>>),
     Body(<<Ok(JObj({Member(SALT_KEY, JStr("cd34"))}))>>),
     Body(<<Ok(JObj({Member(SALT_KEY, JStr(""))}))>>),
     Body(<<Ok(MapPayload)>>),
     Body(<<Ok(JObj({Member(SALT_KEY, JNum("7"))}))>>),
     Body(<<Ok(JStr(SALT_KEY))>>),
     Body(<<Ok(JNum("5"))>>)}

\* the "result" member of a web_login payload; None stands for no member
ResultCodes ==
    {JNum("0"), JStr("0"), JBool("false"), JNum("1"), JStr("1"), JBool("true"),
     JNum("2"), JStr("2"), JNum("3"), None}

\* the "ubus_rpc_session" member: absent, a session id, or null
NoMember == [kind |-> "absent", text |-> "", members |-> {}]
SessionFields == {NoMember, JStr("T1"), JNull}

LoginPayload(code, sess) ==
    JObj({Member("msg", JStr("m"))}
         \cup (IF code = None THEN {} ELSE {Member("result", code)})
         \cup (IF sess = NoMember THEN {} ELSE {Member("ubus_rpc_session", sess)}))

\* replies to web_login
LoginReplies ==
    {TransportError, Body(<<>>), Body(<<Ok(TextPayload)>>)}
        \cup {Body(<<Ok(LoginPayload(code, sess))>>) :
                 code \in ResultCodes, sess \in SessionFields}

\* the replies to the handshake that async_update runs
UpdateInfoReplies == {TransportError, Body(<<Ok(SaltPayload)>>)}

UpdateLoginReplies ==
    {TransportError,
     Body(<<Ok(LoginPayload(JNum("0"), JStr("T1")))>>),
     Body(<<Ok(LoginPayload(JStr("0"), NoMember))>>),
     Body(<<Ok(LoginPayload(JNum("0"), JNull))>>),
     Body(<<Ok(LoginPayload(JNum("1"), NoMember))>>)}

(***************************************************************************)
(* State.                                                                   *)
(*   password, session_id, _session, _request_id: the object's fields       *)
(*   pc:      "idle", or "returned" while the caller holds the last result  *)
(*   last:    the operation that returned last, with what it was given,     *)
(*            what it sent and what it gave back                            *)
(*   issued:  every request id placed in an envelope so far, in order       *)
(*   expired: the last batch reset the token and no async_update or         *)
(*            async_login has run since                                     *)
(*   tasks:   the coroutines running on the client when its operations are  *)
(*            not awaited one at a time, each with the await it is          *)
(*            suspended at                                                  *)
(***************************************************************************)
Self == Client(password, session_id, _session, _request_id)

Unused == [info |-> NoReply, login |-> NoReply, batch |-> NoReply]

NoLast ==
    [op |-> "none", outcome |-> "none", ret |-> FALSE, snapshot |-> NoSnapshot,
     results |-> <<>>, ncalls |-> 0, before |-> NewClient(None),
     replies |-> Unused, posts |-> <<>>, login |-> FALSE, reset |-> FALSE,
     after_expiry |-> FALSE]

\* the ids of the envelopes of a sequence of POSTs, in the order built
RECURSIVE IdsOf(_)
IdsOf(posts) ==
    IF posts = <<>> THEN <<>>
    ELSE [i \in 1..Len(posts[1]) |-> posts[1][i].id] \o IdsOf(Tail(posts))

Passwords == {None, JStr(""), JStr("pass")}

\* the callers that may hold a coroutine on the client at the same time
Tasks == {"a", "b"}

\* a caller with no coroutine on the client
NoTask ==
    [op |-> "none", at |-> "idle", post |-> <<>>, adopted |-> FALSE,
     reset |-> FALSE, held |-> None, outcome |-> "none", ret |-> FALSE]

Init ==
    /\ password \in Passwords
    /\ session_id = UNAUTHENTICATED_SESSION
    /\ _session = "None"
    /\ _request_id = 1
    /\ pc = "idle"
    /\ last = NoLast
    /\ issued = <<>>
    /\ expired = FALSE
    /\ tasks = [t \in Tasks |-> NoTask]

CanStart == pc = "idle" /\ _request_id <= MaxRequestId

Becomes(c) ==
    /\ session_id' = c.session_id
    /\ _session' = c.session
    /\ _request_id' = c.request_id
    /\ UNCHANGED <<password, tasks>>

\* the token async_update holds when it reaches the batch
TokenAtBatch(c, i, l) ==
    IF NeedsLogin(c) /\ l # NoReply
    THEN AdoptIfSuccess(CallApiValue(l), c.session_id) ELSE c.session_id

\* the caller awaits async_update(); the device answers from the given replies
UpdateWith(infos, logins, batches) ==
    /\ CanStart
    /\ \E i \in (IF NeedsLogin(Self) THEN infos ELSE {NoReply}) :
       \E l \in (IF NeedsLogin(Self) /\ LoginIsSent(Self, i)
                 THEN logins ELSE {NoReply}) :
       \E b \in (IF CanSlice(TokenAtBatch(Self, i, l))
                 THEN batches ELSE {NoReply}) :
       \E r \in {AsyncUpdate(Self, i, l, b)} :
              /\ Becomes(r.client)
              /\ pc' = "returned"
              /\ last' = [op |-> "async_update", outcome |-> r.outcome,
                          ret |-> r.login_success, snapshot |-> r.snapshot,
                          results |-> r.results, ncalls |-> 5, before |-> Self,
                          replies |-> [info |-> i, login |-> l, batch |-> b],
                          posts |-> r.posts, login |-> r.login,
                          reset |-> r.reset, after_expiry |-> expired]
              /\ issued' = issued \o IdsOf(r.posts)
              /\ expired' = r.reset

Update == UpdateWith(UpdateInfoReplies, UpdateLoginReplies, UpdateBatchReplies)

\* the caller awaits async_login(); the device answers from the given replies
LoginWith(infos, logins) ==
    /\ CanStart
    /\ \E i \in (IF Truthy(password) THEN infos ELSE {NoReply}) :
       \E l \in (IF LoginIsSent(Self, i) THEN logins ELSE {NoReply}) :
       \E r \in {AsyncLogin(Self, i, l)} :
              /\ Becomes(r.client)
              /\ pc' = "returned"
              /\ last' = [NoLast EXCEPT !.op = "async_login",
                             !.outcome = "returned", !.ret = r.ret,
                             !.before = Self,
                             !.replies = [info |-> i, login |-> l, batch |-> NoReply],
                             !.posts = r.posts, !.login = TRUE,
                             !.after_expiry = expired]
              /\ issued' = issued \o IdsOf(r.posts)
              /\ expired' = FALSE

Login == LoginWith(InfoReplies, LoginReplies)

\* _call_api_batch on the first n calls of async_update's list
Batch ==
    /\ CanStart
    /\ \E n \in 1..MaxCalls, b \in BatchReplies :
       \E r \in {CallApiBatch(Self, SubSeq(UpdateCalls(RouterMethod(session_id)), 1, n), b)} :
              /\ Becomes(r.client)
              /\ pc' = "returned"
              /\ last' = [NoLast EXCEPT !.op = "_call_api_batch",
                             !.outcome = "returned", !.results = r.results,
                             !.ncalls = n, !.before = Self,
                             !.replies = [info |-> NoReply, login |-> NoReply,
                                          batch |-> b],
                             !.posts = <<r.post>>, !.reset = r.reset,
                             !.after_expiry = expired]
              /\ issued' = issued \o IdsOf(<<r.post>>)
              /\ expired' = r.reset

\* the caller awaits close()
Close ==
    /\ pc = "idle"
    /\ _session' = CloseSession(_session)
    /\ pc' = "returned"
    /\ last' = [NoLast EXCEPT !.op = "close", !.outcome = "returned",
                   !.before = Self, !.after_expiry = expired]
    /\ UNCHANGED <<password, session_id, _request_id, issued, expired, tasks>>

\* the caller takes the result and is ready for its next call
Consume ==
    /\ pc = "returned"
    /\ pc' = "idle"
    /\ last' = NoLast
    /\ UNCHANGED <<password, session_id, _session, _request_id, issued, expired,
                   tasks>>

Next == Update \/ Login \/ Close \/ Consume

\* the public operations of one client, called one at a time
Spec == Init /\ [][Next]_vars

NextUnit == Login \/ Batch \/ Close \/ Consume

\* async_login and _call_api_batch called directly, one at a time
SpecUnit == Init /\ [][NextUnit]_vars

\* what a transport that fails gives to every POST: no connection, or a
\* status that is not 2xx
FailingReplies == {TransportError, HttpError}

UpdateDown == UpdateWith(FailingReplies, FailingReplies, FailingReplies)

LoginDown == LoginWith(FailingReplies, FailingReplies)

NextDown == UpdateDown \/ LoginDown \/ Close \/ Consume

\* the public operations against a device no request ever reaches
SpecDown == Init /\ [][NextDown]_vars

(***************************************************************************)
(* The operations not awaited one at a time.  A coroutine runs without       *)
(* interruption between two suspensions, and it is suspended only while a   *)
(* POST and its body are awaited: _get_session holds no await of its own,   *)
(* so the transport, the envelopes and the counter are taken in one step    *)
(* with the statements before them.  A step below is one such stretch of    *)
(* async_update or async_login, from the reply received to the next POST.   *)
(***************************************************************************)
\* session ids the device hands out to two logins
ConcLoginReplies ==
    {TransportError,
     Body(<<Ok(LoginPayload(JNum("0"), JStr("T1")))>>),
     Body(<<Ok(LoginPayload(JNum("0"), JStr("T2")))>>),
     Body(<<Ok(LoginPayload(JNum("0"), JNull))>>),
     Body(<<Ok(LoginPayload(JNum("1"), NoMember))>>)}

ConcBatchReplies ==
    {TransportError,
     Body(<<Ok(MapPayload), Ok(MapPayload), Ok(MapPayload), Ok(MapPayload),
            Ok(MapPayload)>>),
     Body(<<Ok(MapPayload), AccessDeniedItem, AccessDeniedItem, Ok(MapPayload),
            Ok(MapPayload)>>),
     Body(<<AccessDeniedItem, AccessDeniedItem>>)}

CanStartTask(t) ==
    /\ pc = "idle"
    /\ tasks[t].at = "idle"
    /\ _request_id <= MaxRequestId

\* the fields of the object after a stretch, with the envelopes it built
Stretch(c, post) ==
    /\ session_id' = c.session_id
    /\ _session' = c.session
    /\ _request_id' = c.request_id
    /\ issued' = issued \o [i \in 1..Len(post) |-> post[i].id]
    /\ UNCHANGED <<password, pc, last, expired>>

\* every other coroutine whose batch is in flight sees a login adopt a token
NoteAdoption(t, adopts) ==
    [u \in Tasks |->
        IF adopts /\ u # t /\ tasks[u].at = "batch"
        THEN [tasks[u] EXCEPT !.adopted = TRUE] ELSE tasks[u]]

\* lines 273-287 up to the POST of the batch: the token is sliced for the
\* log, then the five envelopes are built from the fields as they are now
SendBatch(t, op, c, ret, adopts) ==
    IF ~CanSlice(c.session_id)
    THEN /\ Stretch(c, <<>>)
         /\ tasks' = [NoteAdoption(t, adopts) EXCEPT
                         ![t] = [tasks[t] EXCEPT !.op = op, !.at = "done",
                                    !.post = <<>>, !.outcome = "raised",
                                    !.ret = ret]]
    ELSE \E built \in {BuildRequests([c EXCEPT !.session = GetSession(c.session)],
                                     UpdateCalls(RouterMethod(c.session_id)),
                                     1, <<>>)} :
            /\ Stretch(built.client, built.requests)
            /\ tasks' = [NoteAdoption(t, adopts) EXCEPT
                            ![t] = [tasks[t] EXCEPT !.op = op, !.at = "batch",
                                       !.post = built.requests, !.ret = ret]]

\* _call_api up to its POST
SendOne(t, op, at, method, params) ==
    \E r \in {CallApi(Self, "zwrt_web", method, params, NoReply)} :
        /\ Stretch(r.client, r.post)
        /\ tasks' = [tasks EXCEPT ![t] = [tasks[t] EXCEPT !.op = op, !.at = at,
                                             !.post = r.post]]

\* async_update is called: it goes to the handshake or straight to the batch
StartUpdate(t) ==
    /\ CanStartTask(t)
    /\ IF NeedsLogin(Self)
       THEN SendOne(t, "async_update", "info", "web_login_info", None)
       ELSE SendBatch(t, "async_update", Self, FALSE, FALSE)

\* async_login is called
StartLogin(t) ==
    /\ CanStartTask(t)
    /\ IF ~Truthy(password)
       THEN /\ tasks' = [tasks EXCEPT ![t] =
                            [NoTask EXCEPT !.op = "async_login", !.at = "done",
                                           !.outcome = "returned"]]
            /\ UNCHANGED <<password, session_id, _session, _request_id, pc, last,
                           issued, expired>>
       ELSE SendOne(t, "async_login", "info", "web_login_info", None)

\* the reply to web_login_info arrives: web_login is sent, or async_login
\* returns False and async_update goes on to the batch
InfoReceived(t) ==
    /\ tasks[t].at = "info"
    /\ \E reply \in UpdateInfoReplies :
       \E salt \in {SaltOf(CallApiValue(reply))} :
          IF salt # None
          THEN SendOne(t, tasks[t].op, "login", "web_login",
                       JObj({Member("password",
                                    JStr(LoginDigest(password.text, salt.text)))}))
          ELSE IF tasks[t].op = "async_login"
          THEN /\ tasks' = [tasks EXCEPT ![t] =
                               [tasks[t] EXCEPT !.at = "done", !.post = <<>>,
                                                !.outcome = "returned"]]
               /\ UNCHANGED <<password, session_id, _session, _request_id, pc,
                              last, issued, expired>>
          ELSE SendBatch(t, "async_update", Self, FALSE, FALSE)

\* the reply to web_login arrives: the token is adopted on success, then
\* async_login returns, and async_update goes on to the batch
LoginReceived(t) ==
    /\ tasks[t].at = "login"
    /\ \E reply \in ConcLoginReplies :
       \E r \in {LoginResult([post |-> <<>>],
                             [client |-> Self, value |-> CallApiValue(reply),
                              post |-> <<>>])} :
          IF tasks[t].op = "async_login"
          THEN /\ Stretch(r.client, <<>>)
               /\ tasks' = [NoteAdoption(t, r.ret) EXCEPT
                               ![t] = [tasks[t] EXCEPT !.at = "done", !.post = <<>>,
                                          !.outcome = "returned", !.ret = r.ret]]
          ELSE SendBatch(t, "async_update", r.client, r.ret, r.ret)

\* the reply to the batch arrives: the loop, the expiry reset on the token
\* as it is now, and the rest of async_update
BatchArrived(t) ==
    /\ tasks[t].at = "batch"
    /\ \E reply \in ConcBatchReplies :
       \E bt \in {BatchReceived([client |-> Self, requests |-> tasks[t].post],
                                tasks[t].post, reply,
                                BatchLoop(reply.items, 1, <<>>, 0))} :
       \E r \in {UpdateWithResults([ret |-> tasks[t].ret, posts |-> <<>>],
                                   FALSE, bt)} :
          /\ Stretch(r.client, <<>>)
          /\ tasks' = [tasks EXCEPT ![t] =
                          [tasks[t] EXCEPT !.at = "done", !.reset = r.reset,
                                           !.held = session_id,
                                           !.outcome = r.outcome]]

\* the caller takes what its coroutine returned or raised
TaskDone(t) ==
    /\ tasks[t].at = "done"
    /\ tasks' = [tasks EXCEPT ![t] = NoTask]
    /\ UNCHANGED <<password, session_id, _session, _request_id, pc, last, issued,
                   expired>>

NextConc ==
    \E t \in Tasks :
        \/ StartUpdate(t)
        \/ StartLogin(t)
        \/ InfoReceived(t)
        \/ LoginReceived(t)
        \/ BatchArrived(t)
        \/ TaskDone(t)

\* async_update and async_login of one client, interleaved at their awaits
SpecConc == Init /\ [][NextConc]_vars

(***************************************************************************)
(* Vocabulary of the properties.                                            *)
(***************************************************************************)
Returned(op) == pc = "returned" /\ last.op = op

\* the payload a reply carries in its first item: element 1 of a result list
\* of two or more elements; None when there is none
PayloadOf(reply) ==
    IF /\ reply.status = "ok" /\ reply.isList /\ Len(reply.items) >= 1
       /\ reply.items[1].isObj /\ reply.items[1].hasResult
       /\ reply.items[1].result.isList /\ Len(reply.items[1].result.elems) >= 2
    THEN reply.items[1].result.elems[2]
    ELSE None

\* the positions of a reply whose item is an error with code -32002
DeniedPositions(reply) ==
    IF reply.status = "ok" /\ reply.isList
    THEN {i \in DOMAIN reply.items :
             /\ reply.items[i].isObj /\ reply.items[i].hasError
             /\ reply.items[i].error.isObj
             /\ reply.items[i].error.code = JNum("-32002")}
    ELSE {}

\* the web_login reply carries result code 0, as an integer or as a string
CodeIsZero(reply) ==
    /\ PayloadOf(reply).kind = "object"
    /\ HasKey(PayloadOf(reply), "result")
    /\ DictGet(PayloadOf(reply), "result", None) \in {JNum("0"), JStr("0")}

SnapshotKeys ==
    {"router_status", "network_info", "data_usage", "device_info", "wlan_info"}

\* every envelope of a POST
Envelopes(post) == {post[i] : i \in DOMAIN post}

(***************************************************************************)
(* C1.  async_update never raises to its caller: whatever the device sends, *)
(* it returns a Snapshot.                                                   *)
(***************************************************************************)
C1_UpdateNeverRaises ==
    Returned("async_update") => last.outcome = "returned"

(***************************************************************************)
(* C2.  _call_api_batch on N call descriptors returns exactly N results,    *)
(* whatever the response array holds.                                       *)
(***************************************************************************)
C2_BatchReturnsOnePerCall ==
    Returned("_call_api_batch") => Len(last.results) = last.ncalls

(***************************************************************************)
(* C3.  A batch response with two or more items of error code -32002,       *)
(* received while the token is not the sentinel, leaves the token equal to  *)
(* the sentinel, whatever the other items are.                              *)
(***************************************************************************)
C3_TwoDeniedResetToken ==
    ( /\ Returned("_call_api_batch")
      /\ Cardinality(DeniedPositions(last.replies.batch)) >= 2
      /\ last.before.session_id # UNAUTHENTICATED_SESSION )
    => session_id = UNAUTHENTICATED_SESSION

(***************************************************************************)
(* C4.  A batch response with fewer than two items of error code -32002     *)
(* leaves the token as it was when the batch was called.                    *)
(***************************************************************************)
C4_OneDeniedKeepsToken ==
    ( /\ Returned("_call_api_batch")
      /\ Cardinality(DeniedPositions(last.replies.batch)) < 2 )
    => session_id = last.before.session_id

C4_Witness ==
    /\ Returned("_call_api_batch")
    /\ last.before.session_id = JStr("T1")
    /\ last.replies.batch = Body(<<AccessDeniedItem, OtherErrorItem, OtherErrorItem>>)
    /\ session_id = JStr("T1")

(***************************************************************************)
(* C5.  With a credential configured, the async_update that follows a batch *)
(* which reset the token runs the handshake first (web_login_info is its    *)
(* first POST), and when the device accepts the login with a session id,    *)
(* the five envelopes of that same async_update carry the new token.        *)
(***************************************************************************)
AcceptedWithSession(reply) ==
    /\ CodeIsZero(reply)
    /\ HasKey(PayloadOf(reply), "ubus_rpc_session")
    /\ DictGet(PayloadOf(reply), "ubus_rpc_session", None).kind = "string"

C5_ReauthenticatesAfterExpiry ==
    ( /\ Returned("async_update")
      /\ last.after_expiry
      /\ Truthy(password) )
    => /\ last.login
       /\ Len(last.posts) >= 1
       /\ Len(last.posts[1]) = 1
       /\ last.posts[1][1].params.method = "web_login_info"
       /\ AcceptedWithSession(last.replies.login)
            => /\ Len(last.posts) = 3
               /\ Len(last.posts[3]) = 5
               /\ \A e \in Envelopes(last.posts[3]) :
                     e.params.session_id
                        = DictGet(PayloadOf(last.replies.login), "ubus_rpc_session", None)

C5_Witness ==
    /\ Returned("async_update")
    /\ last.after_expiry
    /\ AcceptedWithSession(last.replies.login)
    /\ Len(last.posts) = 3
    /\ last.posts[3][1].params.session_id = JStr("T1")
    /\ last.posts[3][1].params.method = "router_get_status"

(***************************************************************************)
(* C6.  async_login whose web_login response has result code 0 (string or  *)
(* integer) returns True; the token becomes the response's ubus_rpc_session *)
(* when it has one and is unchanged when it has none.                       *)
(***************************************************************************)
C6_LoginSuccessAdoptsSession ==
    ( /\ Returned("async_login")
      /\ last.replies.login # NoReply
      /\ CodeIsZero(last.replies.login) )
    => /\ last.ret = TRUE
       /\ HasKey(PayloadOf(last.replies.login), "ubus_rpc_session")
            => session_id
                 = DictGet(PayloadOf(last.replies.login), "ubus_rpc_session", None)
       /\ ~HasKey(PayloadOf(last.replies.login), "ubus_rpc_session")
            => session_id = last.before.session_id

C6_Witness ==
    /\ Returned("async_login")
    /\ last.replies.login = Body(<<Ok(LoginPayload(JStr("0"), JStr("T1")))>>)
    /\ last.before.session_id = UNAUTHENTICATED_SESSION
    /\ last.ret = TRUE
    /\ session_id = JStr("T1")

(***************************************************************************)
(* C7.  On every failure path of async_login (no credential, no salt, a     *)
(* result code other than 0 in string or integer form, an empty or          *)
(* malformed response, a transport failure) it returns False and the token  *)
(* is the one it had before the call.                                       *)
(***************************************************************************)
C7_LoginFailureKeepsToken ==
    ( /\ Returned("async_login")
      /\ ~(last.replies.login # NoReply /\ CodeIsZero(last.replies.login)) )
    => /\ last.ret = FALSE
       /\ session_id = last.before.session_id

(***************************************************************************)
(* C8.  The request ids placed in envelopes start at 1, are strictly        *)
(* increasing in the order the envelopes are built, and none is used twice, *)
(* also when requests fail or the transport is closed and created again.    *)
(***************************************************************************)
C8_RequestIdsIncrease ==
    /\ issued # <<>> => issued[1] = 1
    /\ \A i, j \in DOMAIN issued : i < j => issued[i] < issued[j]
    /\ \A i \in DOMAIN issued : issued[i] < _request_id

C8_Witness ==
    /\ Returned("async_update")
    /\ last.before.session = "closed"
    /\ last.replies.batch = TransportError
    /\ Len(issued) >= 10

(***************************************************************************)
(* C9.  The async_update whose batch response is                            *)
(* [result, error -32002, error -32002, result, result], with prior token   *)
(* "T1", ends with the sentinel token.  As claimed: network_info is empty   *)
(* and the other four sections are populated.  As the code has it:          *)
(* network_info and data_usage (positions 1 and 2, the two errors) are      *)
(* empty and the other three sections are populated.                        *)
(***************************************************************************)
\* the scenario of C9: the response and the prior token
C9_Scenario ==
    /\ Returned("async_update")
    /\ last.before.session_id = JStr("T1")
    /\ last.replies.batch
         = Body(<<Ok(MapPayload), AccessDeniedItem, AccessDeniedItem,
                  Ok(MapPayload), Ok(MapPayload)>>)

\* C9 as claimed: the token is the sentinel, network_info is empty and the
\* other four sections are populated
C9_ScenarioAsClaimed ==
    C9_Scenario
    => /\ session_id = UNAUTHENTICATED_SESSION
       /\ last.outcome = "returned"
       /\ last.snapshot.network_info = EmptyDict
       /\ last.snapshot.router_status # EmptyDict
       /\ last.snapshot.data_usage # EmptyDict
       /\ last.snapshot.device_info # EmptyDict
       /\ last.snapshot.wlan_info # EmptyDict

\* C9 as amended: the token is the sentinel, network_info and data_usage are
\* empty and router_status, device_info and wlan_info hold the payloads
C9_ScenarioTwoSectionsEmpty ==
    C9_Scenario
    => /\ session_id = UNAUTHENTICATED_SESSION
       /\ last.outcome = "returned"
       /\ last.snapshot.network_info = EmptyDict
       /\ last.snapshot.data_usage = EmptyDict
       /\ last.snapshot.router_status = MapPayload
       /\ last.snapshot.device_info = MapPayload
       /\ last.snapshot.wlan_info = MapPayload

C9_Witness == C9_Scenario /\ last.reset

(***************************************************************************)
(* C10.  Every Snapshot async_update returns has exactly the five section   *)
(* keys, filled from batch positions 0..4 in that order, and every section  *)
(* is a mapping: the device's payload, or an empty mapping.                 *)
(***************************************************************************)
SectionAt(i) ==
    CASE i = 1 -> last.snapshot.router_status
      [] i = 2 -> last.snapshot.network_info
      [] i = 3 -> last.snapshot.data_usage
      [] i = 4 -> last.snapshot.device_info
      [] i = 5 -> last.snapshot.wlan_info

C10_SnapshotSectionsAreMappings ==
    ( Returned("async_update") /\ last.outcome = "returned" )
    => /\ DOMAIN last.snapshot = SnapshotKeys
       /\ \A i \in 1..5 :
             /\ SectionAt(i).kind = "object"
             /\ SectionAt(i) \in {last.results[i], EmptyDict}

(***************************************************************************)
(* C11.  Against a transport that fails on every request, every             *)
(* async_update of any sequence of calls, with or without a credential,     *)
(* returns a Snapshot whose five sections are empty mappings, and the token *)
(* stays the sentinel.                                                      *)
(***************************************************************************)
C11_DownDeviceGivesEmptySnapshot ==
    /\ session_id = UNAUTHENTICATED_SESSION
    /\ Returned("async_update")
         => /\ last.outcome = "returned"
            /\ last.snapshot.router_status = EmptyDict
            /\ last.snapshot.network_info = EmptyDict
            /\ last.snapshot.data_usage = EmptyDict
            /\ last.snapshot.device_info = EmptyDict
            /\ last.snapshot.wlan_info = EmptyDict

C11_Witness ==
    /\ Returned("async_update")
    /\ Truthy(password)
    /\ last.before.request_id > 1
    /\ last.replies.info = TransportError
    /\ last.replies.batch = HttpError
    /\ last.outcome = "returned"
    /\ last.snapshot.wlan_info = EmptyDict

(***************************************************************************)
(* C12.  async_update invokes async_login exactly when a credential is      *)
(* configured and the token is the sentinel at entry; when that login       *)
(* fails, the batch is still dispatched and a Snapshot is returned.         *)
(***************************************************************************)
\* the operation began with the handshake's first request
AuthInvoked ==
    /\ Len(last.posts) >= 1
    /\ Len(last.posts[1]) = 1
    /\ last.posts[1][1].params.method = "web_login_info"

\* the handshake ran and the device did not accept it with result code 0
AuthFailed == AuthInvoked /\ ~CodeIsZero(last.replies.login)

\* the last POST of the operation is the batch of async_update's five calls
BatchDispatched ==
    /\ Len(last.posts) >= 1
    /\ Len(last.posts[Len(last.posts)]) = 5
    /\ last.posts[Len(last.posts)][1].params.method
          \in {"router_get_status", "router_get_status_no_auth"}

C12_LoginIffNeededThenSnapshot ==
    Returned("async_update")
    => /\ AuthInvoked <=> ( /\ Truthy(last.before.password)
                            /\ last.before.session_id = UNAUTHENTICATED_SESSION )
       /\ AuthFailed => (BatchDispatched /\ last.outcome = "returned")

\* the part of C12 that stops at the dispatch of the batch
C12_LoginIffNeededThenBatch ==
    Returned("async_update")
    => /\ AuthInvoked <=> ( /\ Truthy(last.before.password)
                            /\ last.before.session_id = UNAUTHENTICATED_SESSION )
       /\ AuthFailed => BatchDispatched

(***************************************************************************)
(* C13.  Within one async_update the handshake comes first and the batch    *)
(* reflects the state it leaves: the five envelopes carry one token, the    *)
(* client's token after the handshake (or the entry token when there was    *)
(* none), and the router-status method is the no-auth one exactly when that *)
(* token is the sentinel.                                                   *)
(***************************************************************************)
\* the token the handshake leaves: the session id of an accepted web_login
\* that carries one, else the token at entry
TokenAfterHandshake ==
    IF /\ AuthInvoked /\ CodeIsZero(last.replies.login)
       /\ HasKey(PayloadOf(last.replies.login), "ubus_rpc_session")
    THEN DictGet(PayloadOf(last.replies.login), "ubus_rpc_session", None)
    ELSE last.before.session_id

BatchPost == last.posts[Len(last.posts)]

C13_BatchCarriesTokenAfterHandshake ==
    (Returned("async_update") /\ BatchDispatched)
    => /\ \A e \in Envelopes(BatchPost) :
             e.params.session_id = TokenAfterHandshake
       /\ BatchPost[1].params.method = "router_get_status_no_auth"
             <=> TokenAfterHandshake = UNAUTHENTICATED_SESSION
       /\ \A i \in 1..(Len(last.posts) - 1) :
             /\ Len(last.posts[i]) = 1
             /\ last.posts[i][1].params.method \in {"web_login_info", "web_login"}
             /\ \A e \in Envelopes(BatchPost) : last.posts[i][1].id < e.id
       /\ ~last.reset => session_id = TokenAfterHandshake

C13_Witness ==
    /\ Returned("async_update")
    /\ BatchDispatched
    /\ AuthInvoked
    /\ last.before.session_id = UNAUTHENTICATED_SESSION
    /\ TokenAfterHandshake = JStr("T1")
    /\ BatchPost[5].params.session_id = JStr("T1")
    /\ BatchPost[1].params.method = "router_get_status"

(***************************************************************************)
(* C14.  close is idempotent and safe: on a transport never opened or       *)
(* already closed it changes nothing, after it the transport is never open  *)
(* (so a further close changes nothing), it touches neither token nor       *)
(* counter; an async_update or async_login that sends a request after a     *)
(* close has created the transport anew and leaves it open.                 *)
(***************************************************************************)
C14_CloseIdempotentAndRecreated ==
    /\ Returned("close")
         => /\ _session # "open"
            /\ last.before.session # "open" => _session = last.before.session
            /\ CloseSession(_session) = _session
            /\ session_id = last.before.session_id
            /\ _request_id = last.before.request_id
            /\ password = last.before.password
    /\ ( /\ Returned("async_update") \/ Returned("async_login")
         /\ last.posts # <<>> )
         => _session = "open"

C14_Witness ==
    /\ Returned("async_update")
    /\ last.before.session = "closed"
    /\ last.before.session_id = JStr("T1")
    /\ BatchDispatched
    /\ _session = "open"
    /\ last.outcome = "returned"

\* a close that follows a close
C14_SecondClose ==
    /\ Returned("close")
    /\ last.before.session = "closed"
    /\ _session = "closed"

(***************************************************************************)
(* C15.  async_login on a client without a credential (None or the empty    *)
(* string) returns False, sends no request and consumes no request id; it   *)
(* leaves token and transport as they were.                                 *)
(***************************************************************************)
C15_LoginWithoutPasswordDoesNothing ==
    (Returned("async_login") /\ ~Truthy(last.before.password))
    => /\ last.ret = FALSE
       /\ last.posts = <<>>
       /\ _request_id = last.before.request_id
       /\ session_id = last.before.session_id
       /\ _session = last.before.session

C15_Witness ==
    /\ Returned("async_login")
    /\ password = JStr("")
    /\ last.before.request_id > 1
    /\ last.ret = FALSE
    /\ last.posts = <<>>

(***************************************************************************)
(* C16.  The password parameter of every web_login request is               *)
(* uppercase(hex(SHA256(uppercase(hex(SHA256(credential))) + salt))) with    *)
(* the salt that the web_login_info of the same handshake returned: a       *)
(* function of credential and salt only, whatever the token, the request    *)
(* id and the earlier handshakes.                                           *)
(***************************************************************************)
\* the salt in the payload of the handshake's web_login_info reply
SaltReturned == DictGet(PayloadOf(last.replies.info), SALT_KEY, None)

C16_LoginPasswordIsDigest ==
    \A i \in DOMAIN last.posts :
        ( /\ Len(last.posts[i]) = 1
          /\ last.posts[i][1].params.method = "web_login" )
        => /\ i = 2
           /\ last.posts[1][1].params.method = "web_login_info"
           /\ last.posts[i][1].params.params
                = JObj({Member("password",
                     JStr(Sha256HexUpper(
                            Sha256HexUpper(last.before.password.text)
                               \o SaltReturned.text)))})

C16_Witness ==
    /\ Returned("async_login")
    /\ last.before.session_id = JStr("T1")
    /\ last.before.request_id > 2
    /\ SaltReturned = JStr("cd34")
    /\ Len(last.posts) = 2
    /\ last.posts[2][1].params.params
          = JObj({Member("password", JStr("SHA256(SHA256(pass)cd34)"))})

(***************************************************************************)
(* C17.  _call_api_batch on a 2xx response whose body is not an array       *)
(* returns None at every one of the N positions and leaves the token        *)
(* unchanged.                                                               *)
(***************************************************************************)
C17_NonListBodyGivesAllNone ==
    (Returned("_call_api_batch") /\ last.replies.batch = NotAList)
    => /\ Len(last.results) = last.ncalls
       /\ \A i \in DOMAIN last.results : last.results[i] = None
       /\ session_id = last.before.session_id

C17_Witness ==
    /\ Returned("_call_api_batch")
    /\ last.replies.batch = NotAList
    /\ last.before.session_id = JStr("T1")
    /\ last.ncalls = 2
    /\ last.results = <<None, None>>
    /\ session_id = JStr("T1")

(***************************************************************************)
(* C18.  _call_api_batch classifies each item of a response array on its    *)
(* own: the result at position i is element 1 of item i's result when item  *)
(* i is an object without an error member whose result is an array of two   *)
(* or more elements, and None for every other item (no object, an error     *)
(* member even beside a valid result, a result missing or too short).       *)
(***************************************************************************)
\* what the classification gives for one item
ItemPayload(item) ==
    IF /\ item.isObj /\ ~item.hasError /\ item.hasResult
       /\ item.result.isList /\ Len(item.result.elems) >= 2
    THEN item.result.elems[2]
    ELSE None

\* the response is an array received with a 2xx status
ArrayReceived(reply) == reply.status = "ok" /\ reply.isList

C18_PerItemClassification ==
    (Returned("_call_api_batch") /\ ArrayReceived(last.replies.batch))
    => \A i \in DOMAIN last.replies.batch.items :
          /\ i \in DOMAIN last.results
          /\ last.results[i] = ItemPayload(last.replies.batch.items[i])

\* the same for responses in which every error member is an object
C18_PerItemWhenErrorsAreObjects ==
    ( /\ Returned("_call_api_batch") /\ ArrayReceived(last.replies.batch)
      /\ \A i \in DOMAIN last.replies.batch.items :
            last.replies.batch.items[i] # BadErrorItem )
    => \A i \in DOMAIN last.replies.batch.items :
          /\ i \in DOMAIN last.results
          /\ last.results[i] = ItemPayload(last.replies.batch.items[i])

(***************************************************************************)
(* C19.  No retry: one async_update sends exactly one batch POST and at     *)
(* most two handshake POSTs; when it detects the expiry of the session it   *)
(* neither logs in again nor sends the batch again in the same call, and    *)
(* it returns the Snapshot with the token reset to the sentinel.            *)
(***************************************************************************)
BatchPosts == {i \in DOMAIN last.posts : Len(last.posts[i]) = 5}

HandshakePosts == {i \in DOMAIN last.posts : Len(last.posts[i]) = 1}

C19_OneBatchNoRetry ==
    Returned("async_update")
    => /\ Cardinality(BatchPosts) = 1
       /\ Cardinality(HandshakePosts) <= 2
       /\ last.reset => /\ BatchPosts = {Len(last.posts)}
                        /\ session_id = UNAUTHENTICATED_SESSION
                        /\ last.outcome = "returned"

\* the part of C19 that counts the requests: never a second batch, never a
\* request after the batch, never more than two handshake requests
C19_NeverASecondBatch ==
    Returned("async_update")
    => /\ Cardinality(BatchPosts) <= 1
       /\ Cardinality(HandshakePosts) <= 2
       /\ BatchPosts \subseteq {Len(last.posts)}
       /\ last.reset => /\ BatchPosts = {Len(last.posts)}
                        /\ session_id = UNAUTHENTICATED_SESSION

(***************************************************************************)
(* C20.  Order of the handshake: web_login is sent only after the           *)
(* web_login_info of the same async_login returned a payload that holds     *)
(* the salt; when web_login_info gives no payload, or a payload without     *)
(* the salt, async_login returns False and sends no web_login.              *)
(***************************************************************************)
WebLoginSent ==
    \E i \in DOMAIN last.posts :
        Len(last.posts[i]) = 1 /\ last.posts[i][1].params.method = "web_login"

\* the payload of the web_login_info reply is an object with the salt member
SaltInPayload ==
    /\ PayloadOf(last.replies.info).kind = "object"
    /\ HasKey(PayloadOf(last.replies.info), SALT_KEY)

C20_WebLoginOnlyAfterSalt ==
    (Returned("async_login") \/ Returned("async_update"))
    => /\ WebLoginSent
            => /\ AuthInvoked
               /\ Len(last.posts) >= 2
               /\ Len(last.posts[2]) = 1
               /\ last.posts[2][1].params.method = "web_login"
               /\ last.posts[1][1].id < last.posts[2][1].id
               /\ SaltInPayload
       /\ (AuthInvoked /\ ~SaltInPayload)
            => /\ ~WebLoginSent
               /\ last.ret = FALSE

C20_Witness ==
    /\ Returned("async_login")
    /\ AuthInvoked
    /\ PayloadOf(last.replies.info) = MapPayload
    /\ ~WebLoginSent
    /\ Len(last.posts) = 1
    /\ last.ret = FALSE

\* a web_login sent after the salt was received
C20_SentAfterSalt ==
    /\ Returned("async_login")
    /\ SaltReturned = JStr("ab12")
    /\ WebLoginSent
    /\ last.ret = TRUE

(***************************************************************************)
(* C21.  Frame: the token changes in two transitions only, a web_login      *)
(* response with result code 0 inside async_login and the expiry reset at   *)
(* the end of _call_api_batch; _call_api, the building of envelopes, close, *)
(* the recreation of the transport, transport failures and malformed        *)
(* responses never change it, and close never changes the request counter.  *)
(***************************************************************************)
TokenChanged == session_id # last.before.session_id

C21_TokenChangesOnlyByLoginOrReset ==
    /\ (pc = "returned" /\ TokenChanged)
         => \/ last.reset
            \/ AuthInvoked /\ WebLoginSent /\ CodeIsZero(last.replies.login)
    /\ Returned("close")
         => ~TokenChanged /\ _request_id = last.before.request_id

\* the web_login reply carries a result code that Python equates with 0 or
\* "0": 0, "0", and also false
CodeEqualsZero(reply) ==
    /\ PayloadOf(reply).kind = "object"
    /\ HasKey(PayloadOf(reply), "result")
    /\ \/ PyEq(DictGet(PayloadOf(reply), "result", None), JNum("0"))
       \/ PyEq(DictGet(PayloadOf(reply), "result", None), JStr("0"))

\* the frame with the result codes the code accepts
C21_TokenChangesOnlyByAcceptedLoginOrReset ==
    /\ (pc = "returned" /\ TokenChanged)
         => \/ last.reset
            \/ AuthInvoked /\ WebLoginSent /\ CodeEqualsZero(last.replies.login)
    /\ Returned("close")
         => ~TokenChanged /\ _request_id = last.before.request_id

(***************************************************************************)
(* C22.  In every reachable state the token is a string, the sentinel or a  *)
(* session id that an accepted web_login response supplied; no response of  *)
(* the device (one whose ubus_rpc_session is null included) leaves a token  *)
(* on which a later async_update fails.                                     *)
(***************************************************************************)
C22_TokenIsAlwaysAString == session_id.kind = "string"

\* an async_update that found a token that is no string and raised on it
C22_LaterUpdateRaised ==
    /\ Returned("async_update")
    /\ last.before.session_id = JNull
    /\ last.posts = <<>>
    /\ last.outcome = "raised"

(***************************************************************************)
(* C23.  A client constructed without a credential keeps the sentinel token *)
(* through every sequence of async_update, async_login and close, never     *)
(* sends web_login_info or web_login, and every envelope it sends carries   *)
(* the sentinel, the router status being asked with the no-auth method.     *)
(***************************************************************************)
C23_NoCredentialStaysUnauthenticated ==
    ~Truthy(password)
    => /\ session_id = UNAUTHENTICATED_SESSION
       /\ \A i \in DOMAIN last.posts :
             \A e \in Envelopes(last.posts[i]) :
                /\ e.params.method \notin {"web_login_info", "web_login"}
                /\ e.params.session_id = UNAUTHENTICATED_SESSION
                /\ e.params.method # "router_get_status"
       /\ Returned("async_update")
            => last.posts[1][1].params.method = "router_get_status_no_auth"
       /\ Returned("async_login") => last.ret = FALSE

C23_Witness ==
    /\ Returned("async_update")
    /\ password = None
    /\ last.before.request_id > 1
    /\ last.before.session = "closed"
    /\ Cardinality(DeniedPositions(last.replies.batch)) >= 2
    /\ BatchDispatched
    /\ session_id = UNAUTHENTICATED_SESSION

(***************************************************************************)
(* C24.  When async_update and async_login coroutines on one client         *)
(* interleave at their awaits, no request id is placed in two envelopes     *)
(* and the ids of one batch are consecutive, in the order of the calls:     *)
(* _create_rpc_request reads and advances the counter with no suspension    *)
(* in between.                                                              *)
(***************************************************************************)
\* the coroutines whose batch has been sent
WithBatch == {t \in Tasks : Len(tasks[t].post) = 5}

C24_IdsUniqueAndBatchConsecutive ==
    /\ \A i, j \in DOMAIN issued : i < j => issued[i] < issued[j]
    /\ \A t \in WithBatch :
          /\ \A k \in 1..4 : tasks[t].post[k + 1].id = tasks[t].post[k].id + 1
          /\ \A k \in 1..5 :
                tasks[t].post[k].params.method
                   = UpdateCalls(tasks[t].post[1].params.method)[k].method
    /\ \A t, u \in Tasks :
          t # u => \A e \in Envelopes(tasks[t].post), f \in Envelopes(tasks[u].post) :
                      e.id # f.id

\* two batches in flight at once, sent by coroutines whose handshakes
\* interleaved: each carries the token its own login adopted
C24_Witness ==
    /\ tasks["a"].at = "batch" /\ tasks["b"].at = "batch"
    /\ tasks["a"].post[1].params.session_id = JStr("T1")
    /\ tasks["b"].post[1].params.session_id = JStr("T2")
    /\ tasks["a"].post[1].id < tasks["b"].post[1].id
    /\ Len(issued) = 14

(***************************************************************************)
(* C25.  When async_update coroutines on one client interleave at their     *)
(* awaits, the expiry reset of a batch resets only the token that the       *)
(* batch's own envelopes carried: a token adopted by a login that           *)
(* completed while the batch was in flight is not discarded by the          *)
(* batch's access-denied items.                                             *)
(***************************************************************************)
\* the coroutines whose batch reset the token
WithReset == {t \in Tasks : tasks[t].at = "done" /\ tasks[t].reset}

\* the token in the envelopes of t's batch
Carried(t) == tasks[t].post[1].params.session_id

C25_ResetOnlyOwnToken ==
    \A t \in WithReset : tasks[t].held = Carried(t)

\* what holds instead: the reset discards the token held when the response
\* is processed, which is the one the batch carried unless a login adopted
\* a token while the batch was in flight
C25_ResetDiscardsTokenHeld ==
    \A t \in WithReset :
        /\ tasks[t].held # UNAUTHENTICATED_SESSION
        /\ tasks[t].held = Carried(t) \/ tasks[t].adopted

C25_Witness ==
    /\ tasks["a"].at = "done" /\ tasks["a"].reset
    /\ Carried("a") = JStr("T1")
    /\ tasks["a"].held = JStr("T2")
    /\ tasks["a"].adopted
    /\ session_id = UNAUTHENTICATED_SESSION

====
